---- MODULE Spec2Model ----
(***************************************************************************)
(* Model of two components of the mail server's storage layer:             *)
(*   - S3Store (crates/store/src/backend/s3/mod.rs): get_blob, put_blob    *)
(*     and delete_blob with their retry loop over HTTP status codes;       *)
(*   - SnowflakeIdGenerator (crates/utils/src/snowflake.rs): generate and  *)
(*     is_valid over an atomic sequence counter and the system clock.      *)
(* Each component has its own next-state relation; the other component's   *)
(* variables stay as they were constructed.                                *)
(***************************************************************************)
EXTENDS Integers, Sequences, FiniteSets, TLC

\* ------------------------------------------------------------------------
\* Bounds of the model
\* ------------------------------------------------------------------------

\* Largest configured max_retries explored (the backoff cap of 2^6 is first
\* reached by the 8th sleep, which needs max_retries >= 8).
MaxRetriesBound == 8

\* Number of generate() calls followed on one generator.
MaxIssued == 3

\* Number of calls a caller makes one after the other on the backend.
MaxCalls == 3

\* Largest max_retries explored where two calls run concurrently.
MaxConcurrentRetries == 1

\* Largest number of generate() calls served where the sequence wraps
\* (one full turn of the 12-bit field is 4096 calls).
MaxServed == 4100

\* ------------------------------------------------------------------------
\* S3Store: state
\* ------------------------------------------------------------------------

VARIABLES
    max_retries,    \* S3Store.max_retries (u32), fixed at construction
    callers,        \* the calls the environment makes on the backend
    pc,             \* per call: "idle", "send", "await", "sleep", "done"
    op,             \* per call: "none", "get", "put", "delete"
    retries_left,   \* per call: the local `retries_left`
    requests,       \* per call: requests issued on the bucket so far
    received,       \* per call: HTTP responses received so far
    n5xx,           \* per call: how many of the received responses were 5xx
    last_status,    \* per call: {} or {status of the last response received}
    sleeps,         \* per call: the durations (seconds) handed to tokio::time::sleep
    result,         \* per call: what the call returned
    prefix,         \* S3Store.prefix (Option<String>), fixed at construction
    local,          \* per call: the arguments key, range, data and the
                    \* local `path` of get_blob
    sent,           \* per call: the requests issued on the bucket, in order
    returned,       \* per call: the bytes inside the Ok(Some(..)) of get_blob
    store,          \* the remote bucket: the objects it holds, by path
    history         \* the calls that returned to their caller, in order

s3vars == <<max_retries, callers, pc, op, retries_left, requests, received,
            n5xx, last_status, sleeps, result,
            prefix, local, sent, returned, store, history>>

\* ------------------------------------------------------------------------
\* SnowflakeIdGenerator: state
\* ------------------------------------------------------------------------

VARIABLES
    node_id,        \* SnowflakeIdGenerator.node_id (u64), fixed at construction
    sequence,       \* SnowflakeIdGenerator.sequence (AtomicU64)
    gpc,            \* per thread in generate(): "idle" or "fetch"
    elapsed,        \* per thread: the local `elapsed` of generate()
    saw_before,     \* per thread: the clock it read was before the epoch
    issued,         \* the generate() calls completed, in the order of their
                    \* fetch_add: what each observed, fetched and returned
    validity,       \* the last is_valid() call: what it observed and returned
    helper,         \* the last from_duration() / from_timestamp() call: its
                    \* clock readings, argument and return value
    epoch,          \* self.epoch, as seconds after UNIX_EPOCH
    served,         \* how many fetch_add(1) the counter has served so far
    clone,          \* the generator made by clone(): its fields
    clone_issued    \* the log of the generate() calls made on the clone

snowvars == <<node_id, sequence, gpc, elapsed, saw_before, issued, validity,
              helper, epoch, served, clone, clone_issued>>

vars == <<s3vars, snowvars>>

\* The concurrent calls that can exist on one backend in the model.
Calls == {"a", "b"}

Ops == {"get", "put", "delete"}

\* Status codes a response may carry: the edges of every match arm of the
\* three operations (200..=299, 404, 500..=599) and codes around them.
StatusCodes == {199, 200, 299, 300, 403, 404, 499, 500, 599, 600}

Pending == [kind |-> "pending", code |-> {}]

\* ------------------------------------------------------------------------
\* 64-bit unsigned arithmetic
\* ------------------------------------------------------------------------
\* A u64 is the set of the positions (0 = least significant, 63 = most) of
\* its bits that are 1: 0 is {}, 5 is {0, 2}, 2^43 - 1 is 0..42.

\* The u64 of a natural number below 2^31.
FromNat(n) == {i \in 0..30 : (n \div (2 ^ i)) % 2 = 1}

\* x << n: bits shifted past position 63 are lost
Shl(x, n) == {i + n : i \in {j \in x : j + n <= 63}}

\* x | y
BitOr(x, y) == x \cup y

\* x & y
BitAnd(x, y) == x \cap y

\* x.wrapping_add(1): the lowest 0 bit becomes 1, the 1 bits below it 0
Inc(x) ==
    IF x = 0..63 THEN {}
    ELSE LET k == CHOOSE i \in 0..63 : i \notin x /\ \A j \in 0..(i - 1) : j \in x
         IN  (x \ (0..(k - 1))) \cup {k}

\* x - 1 for x > 0: the lowest 1 bit becomes 0, the 0 bits below it 1
Dec(x) ==
    LET k == CHOOSE i \in x : \A j \in x : i <= j
    IN  (x \ {k}) \cup (0..(k - 1))

\* x < y as unsigned integers: the highest bit in which they differ is y's
Less(x, y) ==
    /\ x # y
    /\ LET diff == (x \ y) \cup (y \ x)
           top == CHOOSE i \in diff : \A j \in diff : j <= i
       IN  top \in y

\* Option<T>: None, Some(v)
None == [some |-> FALSE, val |-> {}]
Some(v) == [some |-> TRUE, val |-> v]

\* ------------------------------------------------------------------------
\* S3Store: pure parts of the retry loop
\* ------------------------------------------------------------------------

Min(a, b) == IF a <= b THEN a ELSE b

\* (self.max_retries - retries_left).min(6) on u32. When retries_left exceeds
\* max_retries the subtraction wraps to at least 2^32 - max_retries in a
\* release build (and panics in a debug build); the minimum with 6 is then 6.
ShiftAmountNoCap(maxr, rl) == IF rl <= maxr THEN maxr - rl ELSE 6

ShiftAmount(maxr, rl) == IF rl <= maxr THEN Min(maxr - rl, 6) ELSE 6

\* 1 << n as the u64 handed to Duration::from_secs, by repeated doubling.
RECURSIVE ShlOne(_)
ShlOne(n) == IF n = 0 THEN 1 ELSE 2 * ShlOne(n - 1)

BackoffSecsAfterDecrement(maxr, rl) == ShlOne(ShiftAmount(maxr, rl - 1))

\* Duration::from_secs(1 << (self.max_retries - retries_left).min(6))
BackoffSecs(maxr, rl) == ShlOne(ShiftAmount(maxr, rl))

ShouldRetryOffByOne(status, rl) == status \in 500..599 /\ rl > 1

\* the guarded arm `500..=599 if retries_left > 0`
ShouldRetry(status, rl) == status \in 500..599 /\ rl > 0

HasNotFoundArmNone(o) == FALSE

\* get_blob and delete_blob have a `404 =>` arm; put_blob has none
HasNotFoundArm(o) == o \in {"get", "delete"}

ClassifyRetryClientErrors(o, status, rl) ==
    IF status \in 200..299 THEN "success"
    ELSE IF status = 404 /\ HasNotFoundArm(o) THEN "not_found"
    ELSE IF status \in 400..599 /\ rl > 0 THEN "retry"
    ELSE "error"

\* The arm of `match response.status_code()` taken, in the order of the arms.
Classify(o, status, rl) ==
    IF status \in 200..299 THEN "success"
    ELSE IF status = 404 /\ HasNotFoundArm(o) THEN "not_found"
    ELSE IF ShouldRetry(status, rl) THEN "retry"
    ELSE "error"

\* The value returned by the 2xx arm of each operation.
SuccessValue(o) ==
    CASE o = "get"    -> [kind |-> "Some", code |-> {}]
      [] o = "put"    -> [kind |-> "Unit", code |-> {}]
      [] o = "delete" -> [kind |-> "True", code |-> {}]

NotFoundValueAsSuccess(o) == SuccessValue(o)

\* The value returned by the 404 arm of get_blob and delete_blob.
NotFoundValue(o) ==
    CASE o = "get"    -> [kind |-> "None", code |-> {}]
      [] o = "delete" -> [kind |-> "False", code |-> {}]

\* Err(S3Error.reason(body).ctx(Key::Code, code)) of the catch-all arm
StatusError(code) == [kind |-> "Err", code |-> {code}]

\* into_error: Err(S3Error.reason(err)), no status code attached
TransportError == [kind |-> "Err", code |-> {}]

\* ------------------------------------------------------------------------
\* S3Store: keys, paths and requests
\* ------------------------------------------------------------------------
\* A byte string is a sequence of numbers 0..255; a path is a sequence of
\* base32 symbols, each the number 0..31 of its place in the alphabet.

\* usize::MAX on a 64-bit target
UsizeMax == 0..63

\* Range<usize> { start: 0, end: usize::MAX }: the whole object
WholeRange == [start |-> FromNat(0), end |-> UsizeMax]

\* The ranges get_blob is called with: the whole object, the empty range
\* 0..0, 0..2, 1..3, and 1..usize::MAX.
Ranges ==
    { WholeRange,
      [start |-> FromNat(0), end |-> FromNat(0)],
      [start |-> FromNat(0), end |-> FromNat(2)],
      [start |-> FromNat(1), end |-> FromNat(3)],
      [start |-> FromNat(1), end |-> UsizeMax] }

\* The keys the operations are called with.
Keys == { <<0>>, <<255, 1>> }

\* The blobs put_blob is called with.
DataValues == { <<7>>, <<1, 2, 3>> }

\* The key-prefix option of the configuration: absent, or the string "p".
Prefixes == { None, Some(<<112>>) }

\* x.saturating_sub(1) on usize
SaturatingSubOne(x) == IF x = {} THEN {} ELSE Dec(x)

\* The 8 bits of a byte, most significant first.
ByteBits(b) == [i \in 1..8 |-> (b \div (2 ^ (8 - i))) % 2]

RECURSIVE BitsOf(_)
BitsOf(bytes) ==
    IF bytes = <<>> THEN <<>>
    ELSE ByteBits(Head(bytes)) \o BitsOf(Tail(bytes))

\* The symbol of a group of up to 5 bits, the missing ones taken as 0.
Quintet(bits) ==
    LET b(i) == IF i <= Len(bits) THEN bits[i] ELSE 0
    IN  16 * b(1) + 8 * b(2) + 4 * b(3) + 2 * b(4) + b(5)

RECURSIVE Quintets(_)
Quintets(bits) ==
    IF bits = <<>> THEN <<>>
    ELSE IF Len(bits) <= 5 THEN <<Quintet(bits)>>
    ELSE <<Quintet(SubSeq(bits, 1, 5))>> \o Quintets(SubSeq(bits, 6, Len(bits)))

\* The key encoder: base32 of a byte string, 5 bits per symbol, no padding.
Base32Encode(bytes) == Quintets(BitsOf(bytes))

\* Base32Writer: the bytes handed to it so far; finalize() encodes them.
with_raw_capacity == [input |-> <<>>]
from_bytes(bytes) == [input |-> bytes]
push_string(writer, string) == [input |-> writer.input \o string]
write_all(writer, bytes) == [input |-> writer.input \o bytes]
finalize(writer) == Base32Encode(writer.input)

\* build_key(key): the path of a key under the configured prefix
build_key(pfx, key) ==
    IF pfx.some
    THEN finalize(write_all(push_string(with_raw_capacity, pfx.val), key))
    ELSE finalize(from_bytes(key))

GetRequestEndNotReduced(path, range) ==
    IF range.start # FromNat(0) \/ range.end # UsizeMax
    THEN [method |-> "get_object_range", path |-> path,
          start |-> range.start, end |-> range.end, data |-> <<>>]
    ELSE [method |-> "get_object", path |-> path,
          start |-> {}, end |-> {}, data |-> <<>>]

\* The request of get_blob: get_object_range(&path, start, Some(end - 1))
\* unless the range is 0..usize::MAX, then get_object(&path). The fields
\* start and end are the first and the last byte asked for, and are not
\* used by the other methods.
GetRequest(path, range) ==
    IF range.start # FromNat(0) \/ range.end # UsizeMax
    THEN [method |-> "get_object_range", path |-> path,
          start |-> range.start, end |-> SaturatingSubOne(range.end),
          data |-> <<>>]
    ELSE [method |-> "get_object", path |-> path,
          start |-> {}, end |-> {}, data |-> <<>>]

PutRequestNoPrefix(pfx, key, data) ==
    [method |-> "put_object", path |-> build_key(None, key),
     start |-> {}, end |-> {}, data |-> data]

\* The request of put_blob: put_object(self.build_key(key), data)
PutRequest(pfx, key, data) ==
    [method |-> "put_object", path |-> build_key(pfx, key),
     start |-> {}, end |-> {}, data |-> data]

\* The request of delete_blob: delete_object(self.build_key(key))
DeleteRequest(pfx, key) ==
    [method |-> "delete_object", path |-> build_key(pfx, key),
     start |-> {}, end |-> {}, data |-> <<>>]

\* ------------------------------------------------------------------------
\* The remote bucket as a faithful object store
\* ------------------------------------------------------------------------
\* The bucket is a set of objects [path, data], one per path at most.

StoreHas(st, path) == \E o \in st : o.path = path

StoreData(st, path) == (CHOOSE o \in st : o.path = path).data

StorePut(st, path, data) ==
    {o \in st : o.path # path} \cup {[path |-> path, data |-> data]}

StoreDelete(st, path) == {o \in st : o.path # path}

\* The bytes of data at the offsets first..last (inclusive, as in an HTTP
\* Range header), offsets past the end left out.
Slice(data, first, last) ==
    LET idx == {i \in 1..Len(data) :
                   /\ ~Less(FromNat(i - 1), first)
                   /\ ~Less(last, FromNat(i - 1))}
        lo  == CHOOSE i \in idx : \A j \in idx : i <= j
    IN  IF idx = {} THEN <<>>
        ELSE [k \in 1..Cardinality(idx) |-> data[lo + k - 1]]

\* What the bucket does with a request and what it answers: a put stores
\* the object and answers 200; a get answers 200 with the object (206 with
\* the bytes asked for, 416 when none of them exists) or 404; a delete
\* removes the object and answers 204, or answers 404 when there is none.
StoreAnswer(st, req) ==
    CASE req.method = "put_object" ->
           [store |-> StorePut(st, req.path, req.data), status |-> 200,
            body |-> <<>>]
      [] req.method = "get_object" ->
           IF StoreHas(st, req.path)
           THEN [store |-> st, status |-> 200, body |-> StoreData(st, req.path)]
           ELSE [store |-> st, status |-> 404, body |-> <<>>]
      [] req.method = "get_object_range" ->
           IF ~StoreHas(st, req.path)
           THEN [store |-> st, status |-> 404, body |-> <<>>]
           ELSE IF Slice(StoreData(st, req.path), req.start, req.end) = <<>>
           THEN [store |-> st, status |-> 416, body |-> <<>>]
           ELSE [store |-> st, status |-> 206,
                 body |-> Slice(StoreData(st, req.path), req.start, req.end)]
      [] req.method = "delete_object" ->
           IF StoreHas(st, req.path)
           THEN [store |-> StoreDelete(st, req.path), status |-> 204,
                 body |-> <<>>]
           ELSE [store |-> st, status |-> 404, body |-> <<>>]

\* ------------------------------------------------------------------------
\* S3Store: construction and the steps of a call
\* ------------------------------------------------------------------------

\* The locals of a call that has not started.
NoLocal == [key |-> <<>>, range |-> WholeRange, data |-> <<>>, path |-> None]

\* The state of the calls and of the bucket when the backend is opened.
NoCalls ==
    /\ pc = [c \in Calls |-> "idle"]
    /\ op = [c \in Calls |-> "none"]
    /\ retries_left = [c \in Calls |-> 0]
    /\ requests = [c \in Calls |-> 0]
    /\ received = [c \in Calls |-> 0]
    /\ n5xx = [c \in Calls |-> 0]
    /\ last_status = [c \in Calls |-> {}]
    /\ sleeps = [c \in Calls |-> <<>>]
    /\ result = [c \in Calls |-> Pending]
    /\ local = [c \in Calls |-> NoLocal]
    /\ sent = [c \in Calls |-> <<>>]
    /\ returned = [c \in Calls |-> None]
    /\ store = {}
    /\ history = <<>>

\* A backend without a key prefix, on which no call is made.
S3Idle ==
    /\ prefix = None
    /\ NoCalls

\* S3Store::open: max_retries (any u32; default 3) and the key prefix from
\* the configuration. One call at a time is followed on the backend; calls
\* share no mutable state (the backend is only read through &self), so the
\* steps of another call would not change what this one does.
S3Init ==
    /\ max_retries \in 0..MaxRetriesBound
    /\ prefix \in Prefixes
    /\ callers = {"a"}
    /\ NoCalls

\* Entry of get_blob / put_blob / delete_blob up to the loop.
Start(c, o) ==
    /\ c \in callers
    /\ pc[c] = "idle"
    /\ Len(history) < MaxCalls
    /\ op' = [op EXCEPT ![c] = o]
    /\ retries_left' = [retries_left EXCEPT ![c] = max_retries]
    /\ pc' = [pc EXCEPT ![c] = "send"]
    /\ UNCHANGED <<max_retries, callers, requests, received, n5xx,
                   last_status, sleeps, result>>
    /\ UNCHANGED <<prefix, sent, returned, store, history>>
    /\ UNCHANGED snowvars

\* get_blob(key, range): `let path = self.build_key(key)` before the loop.
get_blob(c, key, range) ==
    /\ Start(c, "get")
    /\ local' = [local EXCEPT ![c] =
                    [key |-> key, range |-> range, data |-> <<>>,
                     path |-> Some(build_key(prefix, key))]]

\* put_blob(key, data)
put_blob(c, key, data) ==
    /\ Start(c, "put")
    /\ local' = [local EXCEPT ![c] =
                    [key |-> key, range |-> WholeRange, data |-> data,
                     path |-> None]]

\* delete_blob(key)
delete_blob(c, key) ==
    /\ Start(c, "delete")
    /\ local' = [local EXCEPT ![c] =
                    [key |-> key, range |-> WholeRange, data |-> <<>>,
                     path |-> None]]

\* The request built at the top of the loop: get_blob uses its local
\* `path`, put_blob and delete_blob call build_key in every iteration.
RequestOf(c) ==
    CASE op[c] = "get"    -> GetRequest(local[c].path.val, local[c].range)
      [] op[c] = "put"    -> PutRequest(prefix, local[c].key, local[c].data)
      [] op[c] = "delete" -> DeleteRequest(prefix, local[c].key)

\* Top of the loop: the request is handed to the bucket and awaited.
Send(c) ==
    /\ pc[c] = "send"
    /\ requests' = [requests EXCEPT ![c] = @ + 1]
    /\ sent' = [sent EXCEPT ![c] = Append(@, RequestOf(c))]
    /\ pc' = [pc EXCEPT ![c] = "await"]
    /\ UNCHANGED <<max_retries, callers, op, retries_left, received, n5xx,
                   last_status, sleeps, result>>
    /\ UNCHANGED <<prefix, local, returned, store, history>>
    /\ UNCHANGED snowvars

TransportFailureRetried(c) ==
    /\ pc[c] = "await"
    /\ IF retries_left[c] > 0
       THEN /\ sleeps' = [sleeps EXCEPT
                  ![c] = Append(@, BackoffSecs(max_retries, retries_left[c]))]
            /\ pc' = [pc EXCEPT ![c] = "sleep"]
            /\ UNCHANGED result
       ELSE /\ result' = [result EXCEPT ![c] = TransportError]
            /\ pc' = [pc EXCEPT ![c] = "done"]
            /\ UNCHANGED sleeps
    /\ UNCHANGED <<max_retries, callers, op, retries_left, requests, received,
                   n5xx, last_status>>
    /\ UNCHANGED <<prefix, local, sent, returned, store, history>>
    /\ UNCHANGED snowvars

\* The awaited request fails without an HTTP response: `.map_err(into_error)?`
TransportFailure(c) ==
    /\ pc[c] = "await"
    /\ result' = [result EXCEPT ![c] = TransportError]
    /\ pc' = [pc EXCEPT ![c] = "done"]
    /\ UNCHANGED <<max_retries, callers, op, retries_left, requests, received,
                   n5xx, last_status, sleeps>>
    /\ UNCHANGED <<prefix, local, sent, returned, store, history>>
    /\ UNCHANGED snowvars

\* The match on status_code() of a response with this status and body.
\* The retry arm starts the backoff sleep; retries_left is decremented only
\* after the sleep (Wake). The 2xx arm of get_blob returns the body:
\* Ok(Some(response.to_vec())).
HandleResponse(c, status, body) ==
    /\ pc[c] = "await"
    /\ received' = [received EXCEPT ![c] = @ + 1]
    /\ n5xx' = [n5xx EXCEPT ![c] = IF status \in 500..599 THEN @ + 1 ELSE @]
    /\ last_status' = [last_status EXCEPT ![c] = {status}]
    /\ LET arm == Classify(op[c], status, retries_left[c]) IN
       CASE arm = "success" ->
              /\ result' = [result EXCEPT ![c] = SuccessValue(op[c])]
              /\ returned' = [returned EXCEPT
                    ![c] = IF op[c] = "get" THEN Some(body) ELSE @]
              /\ pc' = [pc EXCEPT ![c] = "done"]
              /\ UNCHANGED sleeps
         [] arm = "not_found" ->
              /\ result' = [result EXCEPT ![c] = NotFoundValue(op[c])]
              /\ pc' = [pc EXCEPT ![c] = "done"]
              /\ UNCHANGED <<sleeps, returned>>
         [] arm = "retry" ->
              /\ sleeps' = [sleeps EXCEPT
                    ![c] = Append(@, BackoffSecs(max_retries, retries_left[c]))]
              /\ pc' = [pc EXCEPT ![c] = "sleep"]
              /\ UNCHANGED <<result, returned>>
         [] arm = "error" ->
              /\ result' = [result EXCEPT ![c] = StatusError(status)]
              /\ pc' = [pc EXCEPT ![c] = "done"]
              /\ UNCHANGED <<sleeps, returned>>
    /\ UNCHANGED <<max_retries, callers, op, retries_left, requests>>
    /\ UNCHANGED <<prefix, local, sent, history>>
    /\ UNCHANGED snowvars

\* The bodies an arbitrary server answers with.
Bodies == { <<>>, <<7>> }

\* The awaited request is answered with `status` by a server of which
\* nothing is assumed.
Receive(c, status) ==
    /\ \E body \in Bodies : HandleResponse(c, status, body)
    /\ UNCHANGED store

\* The awaited request is carried out and answered by the faithful store.
Serve(c) ==
    /\ pc[c] = "await"
    /\ LET answer == StoreAnswer(store, sent[c][Len(sent[c])]) IN
          /\ store' = answer.store
          /\ HandleResponse(c, answer.status, answer.body)

WakeSharedBudget(c) ==
    /\ pc[c] = "sleep"
    /\ retries_left' = [d \in Calls |->
                          IF retries_left[d] > 0 THEN retries_left[d] - 1
                          ELSE 0]
    /\ pc' = [pc EXCEPT ![c] = "send"]
    /\ UNCHANGED <<max_retries, callers, op, requests, received, n5xx,
                   last_status, sleeps, result>>
    /\ UNCHANGED <<prefix, local, sent, returned, store, history>>
    /\ UNCHANGED snowvars

WakeDoubleDecrement(c) ==
    /\ pc[c] = "sleep"
    /\ retries_left' = [retries_left EXCEPT ![c] = @ - 2]
    /\ pc' = [pc EXCEPT ![c] = "send"]
    /\ UNCHANGED <<max_retries, callers, op, requests, received, n5xx,
                   last_status, sleeps, result>>
    /\ UNCHANGED <<prefix, local, sent, returned, store, history>>
    /\ UNCHANGED snowvars

WakeNoDecrement(c) ==
    /\ pc[c] = "sleep"
    /\ pc' = [pc EXCEPT ![c] = "send"]
    /\ UNCHANGED <<max_retries, callers, op, retries_left, requests, received,
                   n5xx, last_status, sleeps, result>>
    /\ UNCHANGED <<prefix, local, sent, returned, store, history>>
    /\ UNCHANGED snowvars

\* The backoff sleep ends: `retries_left -= 1`, back to the top of the loop.
Wake(c) ==
    /\ pc[c] = "sleep"
    /\ retries_left' = [retries_left EXCEPT ![c] = @ - 1]
    /\ pc' = [pc EXCEPT ![c] = "send"]
    /\ UNCHANGED <<max_retries, callers, op, requests, received, n5xx,
                   last_status, sleeps, result>>
    /\ UNCHANGED <<prefix, local, sent, returned, store, history>>
    /\ UNCHANGED snowvars

\* The call has returned and its caller goes on: what it was called with,
\* what it sent and what it returned are kept in the history, its locals
\* are dropped.
Return(c) ==
    /\ pc[c] = "done"
    /\ history' = Append(history,
          [op |-> op[c], key |-> local[c].key, range |-> local[c].range,
           data |-> local[c].data, sent |-> sent[c],
           result |-> result[c], returned |-> returned[c]])
    /\ pc' = [pc EXCEPT ![c] = "idle"]
    /\ op' = [op EXCEPT ![c] = "none"]
    /\ retries_left' = [retries_left EXCEPT ![c] = 0]
    /\ requests' = [requests EXCEPT ![c] = 0]
    /\ received' = [received EXCEPT ![c] = 0]
    /\ n5xx' = [n5xx EXCEPT ![c] = 0]
    /\ last_status' = [last_status EXCEPT ![c] = {}]
    /\ sleeps' = [sleeps EXCEPT ![c] = <<>>]
    /\ result' = [result EXCEPT ![c] = Pending]
    /\ local' = [local EXCEPT ![c] = NoLocal]
    /\ sent' = [sent EXCEPT ![c] = <<>>]
    /\ returned' = [returned EXCEPT ![c] = None]
    /\ UNCHANGED <<max_retries, callers, prefix, store>>
    /\ UNCHANGED snowvars

S3Next ==
    \/ \E c \in Calls, key \in Keys, range \in Ranges : get_blob(c, key, range)
    \/ \E c \in Calls, key \in Keys, data \in DataValues : put_blob(c, key, data)
    \/ \E c \in Calls, key \in Keys : delete_blob(c, key)
    \/ \E c \in Calls : Send(c)
    \/ \E c \in Calls : TransportFailure(c)
    \/ \E c \in Calls, status \in StatusCodes : Receive(c, status)
    \/ \E c \in Calls : Wake(c)

\* One caller using a faithful store, one call after the other.
StoreNext ==
    \/ \E c \in Calls, key \in Keys, range \in Ranges : get_blob(c, key, range)
    \/ \E c \in Calls, key \in Keys, data \in DataValues : put_blob(c, key, data)
    \/ \E c \in Calls, key \in Keys : delete_blob(c, key)
    \/ \E c \in Calls : Send(c)
    \/ \E c \in Calls : Serve(c)
    \/ \E c \in Calls : Return(c)

\* Concurrent calls on one key, the server answering anything.
ConcurrentNext ==
    \/ \E c \in Calls : get_blob(c, <<0>>, WholeRange)
    \/ \E c \in Calls : put_blob(c, <<0>>, <<7>>)
    \/ \E c \in Calls : delete_blob(c, <<0>>)
    \/ \E c \in Calls : Send(c)
    \/ \E c \in Calls : TransportFailure(c)
    \/ \E c \in Calls, status \in StatusCodes : Receive(c, status)
    \/ \E c \in Calls : Wake(c)

\* ------------------------------------------------------------------------
\* SnowflakeIdGenerator: constants and pure parts
\* ------------------------------------------------------------------------

SEQUENCE_LEN == 12
NODE_ID_LEN == 9

SEQUENCE_MASK == Dec(Shl(FromNat(1), SEQUENCE_LEN))
NODE_ID_MASK == Dec(Shl(FromNat(1), NODE_ID_LEN))

\* A reading of the system clock, relative to the generator's epoch: whether
\* it is before the epoch, and its distance from the epoch in whole
\* milliseconds.
Reading(before, dist) == [before |-> before, dist |-> dist]

\* The clock readings explored: 5 ms before the epoch, the epoch itself, one
\* millisecond later, about five years later (2^37 + 2^34 + 2^5 ms), the
\* last millisecond that fits 43 bits, and the first that does not.
\* SystemTime is not monotonic: any reading may follow any.
Readings ==
    { Reading(TRUE, FromNat(5)),
      Reading(FALSE, FromNat(0)),
      Reading(FALSE, FromNat(1)),
      Reading(FALSE, {5, 34, 37}),
      Reading(FALSE, 0..42),
      Reading(FALSE, {43}) }

\* The node ids explored: 511 (all nine low bits) and 1027 (a bit above the
\* low nine set; 1027 mod 512 = 3).
NodeIds == {FromNat(511), FromNat(1027)}

\* The counter values a generator is observed from: 0 (just built by
\* with_node_id) and 4094 (after 4094 generate() calls, two before the 12-bit
\* sequence wraps).
StartCalls == {0, 4094}

Threads == {"t1", "t2"}

ElapsedMillisNoSaturation(r) == r.dist

\* self.epoch.elapsed().map(|e| e.as_millis()).unwrap_or_default() as u64:
\* elapsed() is Err when the clock is before the epoch, and the default is 0
ElapsedMillis(r) == IF r.before THEN FromNat(0) ELSE r.dist

\* self.epoch.elapsed().is_ok()
IsValidResult(r) == ~r.before

TimestampShiftShort == SEQUENCE_LEN + NODE_ID_LEN - 1

\* the shift of the elapsed milliseconds: SEQUENCE_LEN + NODE_ID_LEN
TimestampShift == SEQUENCE_LEN + NODE_ID_LEN

NodeFieldUnmasked(node) == node

\* self.node_id & NODE_ID_MASK
NodeField(node) == BitAnd(node, NODE_ID_MASK)

SequenceFieldUnmasked(fetched) == fetched

\* the value fetch_add returned, & SEQUENCE_MASK
SequenceField(fetched) == BitAnd(fetched, SEQUENCE_MASK)

\* A full turn of the 12-bit sequence field.
FullTurn == 2 ^ SEQUENCE_LEN

FetchAddLoadOnly(counter) == [fetched |-> counter, stored |-> counter]

\* self.sequence.fetch_add(1, Ordering::Relaxed): one atomic step that
\* returns the old value and stores the old value plus one (wrapping)
FetchAdd(counter) == [fetched |-> counter, stored |-> Inc(counter)]

\* (elapsed << (SEQUENCE_LEN + NODE_ID_LEN)) | (sequence << NODE_ID_LEN)
\*     | (self.node_id & NODE_ID_MASK)
GenerateId(e, fetched, node) ==
    BitOr(BitOr(Shl(e, TimestampShift),
                Shl(SequenceField(fetched), NODE_ID_LEN)),
          NodeField(node))

\* ------------------------------------------------------------------------
\* SnowflakeIdGenerator: the epoch-relative helpers
\* ------------------------------------------------------------------------

DEFAULT_EPOCH == 1632280000

\* A std::time::Duration: whole seconds and the sub-second part, here in
\* milliseconds (0..999) where Rust keeps nanoseconds.
Dur(secs, millis) == [secs |-> secs, millis |-> millis]

\* The clock readings the helpers are called under: signed milliseconds
\* from the epoch (UNIX_EPOCH + DEFAULT_EPOCH seconds), on both sides of the
\* epoch and of the boundaries between whole seconds.
HelperClock == {-1500, -1, 0, 1, 999, 1000, 2500}

\* The period arguments of from_duration.
Periods ==
    { Dur(0, 0), Dur(0, 1), Dur(0, 999), Dur(1, 0), Dur(1, 1), Dur(2, 500),
      Dur(3, 0) }

\* The unix_seconds arguments of from_timestamp: 1970, and the seconds
\* around the epoch.
Timestamps ==
    {0} \cup {DEFAULT_EPOCH + k : k \in {-2, -1, 0, 1, 2, 3}}

\* (UNIX_EPOCH + Duration::from_secs(DEFAULT_EPOCH)).elapsed(): Err when the
\* clock is before the epoch
EpochElapsed(t) ==
    IF t < 0 THEN [ok |-> FALSE, dur |-> Dur(0, 0)]
    ELSE [ok |-> TRUE, dur |-> Dur(t \div 1000, t % 1000)]

\* SystemTime::now().duration_since(UNIX_EPOCH), .as_secs(): the readings
\* explored are all after 1970, so duration_since is Ok
UnixSecs(t) == DEFAULT_EPOCH + (t \div 1000)

\* Duration::checked_sub: None when b is longer than a
DurCheckedSub(a, b) ==
    IF b.secs < a.secs \/ (b.secs = a.secs /\ b.millis <= a.millis)
    THEN [some |-> TRUE,
          val  |-> IF b.millis <= a.millis
                   THEN Dur(a.secs - b.secs, a.millis - b.millis)
                   ELSE Dur(a.secs - b.secs - 1, a.millis + 1000 - b.millis)]
    ELSE [some |-> FALSE, val |-> Dur(0, 0)]

\* Duration::as_millis
DurAsMillis(d) == d.secs * 1000 + d.millis

\* from_duration(period), the clock reading t
from_duration(t, period) ==
    LET e == EpochElapsed(t) IN
    IF ~e.ok THEN None
    ELSE LET left == DurCheckedSub(e.dur, period) IN
         IF ~left.some THEN None
         ELSE Some(Shl(FromNat(DurAsMillis(left.val)),
                       SEQUENCE_LEN + NODE_ID_LEN))

\* from_timestamp(timestamp): SystemTime::now() reads t1, and the elapsed()
\* inside from_duration reads the clock again, t2
from_timestamp(t1, t2, timestamp) ==
    LET now_secs == UnixSecs(t1) IN
    IF timestamp <= now_secs
    THEN from_duration(t2, Dur(now_secs - timestamp, 0))
    ELSE None

\* ------------------------------------------------------------------------
\* SnowflakeIdGenerator: construction and the steps of generate / is_valid
\* ------------------------------------------------------------------------

NotCalled == [called |-> FALSE, before |-> FALSE, ret |-> FALSE]

\* No clone() has been called.
NoClone == [made |-> FALSE, epoch |-> 0, node_id |-> {}, sequence |-> {}]

NoHelper == [fn |-> "none", now1 |-> 0, now2 |-> 0, period |-> Dur(0, 0),
             ts |-> 0, ret |-> None]

\* with_node_id(id): sequence 0, nobody inside generate().
SnowIdle ==
    /\ gpc = [t \in Threads |-> "idle"]
    /\ elapsed = [t \in Threads |-> FromNat(0)]
    /\ saw_before = [t \in Threads |-> FALSE]
    /\ issued = <<>>
    /\ validity = NotCalled
    /\ helper = NoHelper
    /\ epoch = DEFAULT_EPOCH
    /\ clone = NoClone
    /\ clone_issued = <<>>

\* The generator when the model starts to watch it: fresh from
\* with_node_id, or after StartCalls calls of generate().
SnowInit ==
    /\ node_id \in NodeIds
    /\ served \in StartCalls
    /\ sequence = FromNat(served)
    /\ SnowIdle

\* generate(), first statement: the clock is read into `elapsed`.
GenerateReadClock(t, r) ==
    /\ gpc[t] = "idle"
    /\ Len(issued) + Len(clone_issued)
          + Cardinality({u \in Threads : gpc[u] = "fetch"}) < MaxIssued
    /\ elapsed' = [elapsed EXCEPT ![t] = ElapsedMillis(r)]
    /\ saw_before' = [saw_before EXCEPT ![t] = r.before]
    /\ gpc' = [gpc EXCEPT ![t] = "fetch"]
    /\ UNCHANGED <<node_id, sequence, issued, validity>>
    /\ UNCHANGED <<helper, epoch, served, clone, clone_issued>>
    /\ UNCHANGED s3vars

\* A generator that restarts its sequence at 0 in every new millisecond.
GenerateFetchAddResetting(t) ==
    /\ gpc[t] = "fetch"
    /\ LET fresh == issued # <<>> /\ issued[Len(issued)].elapsed # elapsed[t]
           fa == FetchAdd(IF fresh THEN FromNat(0) ELSE sequence)
       IN /\ sequence' = fa.stored
          /\ issued' = Append(issued,
                [elapsed |-> elapsed[t],
                 before  |-> saw_before[t],
                 fetched |-> fa.fetched,
                 nth     |-> served + 1,
                 id      |-> GenerateId(elapsed[t], fa.fetched, node_id)])
    /\ served' = served + 1
    /\ elapsed' = [elapsed EXCEPT ![t] = FromNat(0)]
    /\ saw_before' = [saw_before EXCEPT ![t] = FALSE]
    /\ gpc' = [gpc EXCEPT ![t] = "idle"]
    /\ UNCHANGED <<node_id, validity>>
    /\ UNCHANGED <<helper, epoch, clone, clone_issued>>
    /\ UNCHANGED s3vars

\* generate(), the rest: the atomic fetch_add(1) and the packing of the id.
GenerateFetchAdd(t) ==
    /\ gpc[t] = "fetch"
    /\ LET fa == FetchAdd(sequence) IN
          /\ sequence' = fa.stored
          /\ issued' = Append(issued,
                [elapsed |-> elapsed[t],
                 before  |-> saw_before[t],
                 fetched |-> fa.fetched,
                 nth     |-> served + 1,
                 id      |-> GenerateId(elapsed[t], fa.fetched, node_id)])
    /\ served' = served + 1
    /\ elapsed' = [elapsed EXCEPT ![t] = FromNat(0)]
    /\ saw_before' = [saw_before EXCEPT ![t] = FALSE]
    /\ gpc' = [gpc EXCEPT ![t] = "idle"]
    /\ UNCHANGED <<node_id, validity>>
    /\ UNCHANGED <<helper, epoch, clone, clone_issued>>
    /\ UNCHANGED s3vars

\* A whole generate() call of a caller whose id is not followed: its clock
\* reading touches nothing shared, its fetch_add(1) is the step.
GenerateUnlogged ==
    /\ served < MaxServed
    /\ sequence' = FetchAdd(sequence).stored
    /\ served' = served + 1
    /\ UNCHANGED <<node_id, gpc, elapsed, saw_before, issued, validity>>
    /\ UNCHANGED <<helper, epoch, clone, clone_issued>>
    /\ UNCHANGED s3vars

\* is_valid(): one reading of the clock.
IsValid(r) ==
    /\ validity' = [called |-> TRUE, before |-> r.before, ret |-> IsValidResult(r)]
    /\ UNCHANGED <<node_id, sequence, gpc, elapsed, saw_before, issued>>
    /\ UNCHANGED <<helper, epoch, served, clone, clone_issued>>
    /\ UNCHANGED s3vars

\* from_duration(period): one reading of the clock.
CallFromDuration(t, period) ==
    /\ helper' = [fn |-> "from_duration", now1 |-> t, now2 |-> t,
                  period |-> period, ts |-> 0,
                  ret |-> from_duration(t, period)]
    /\ UNCHANGED <<node_id, sequence, gpc, elapsed, saw_before, issued, validity>>
    /\ UNCHANGED <<epoch, served, clone, clone_issued>>
    /\ UNCHANGED s3vars

\* from_timestamp(timestamp): two readings of the clock.
CallFromTimestamp(t1, t2, timestamp) ==
    /\ helper' = [fn |-> "from_timestamp", now1 |-> t1, now2 |-> t2,
                  period |-> Dur(0, 0), ts |-> timestamp,
                  ret |-> from_timestamp(t1, t2, timestamp)]
    /\ UNCHANGED <<node_id, sequence, gpc, elapsed, saw_before, issued, validity>>
    /\ UNCHANGED <<epoch, served, clone, clone_issued>>
    /\ UNCHANGED s3vars

\* A clone that copies the counter too.
CloneSharingCounter ==
    /\ ~clone.made
    /\ clone' = [made |-> TRUE, epoch |-> epoch, node_id |-> node_id,
                 sequence |-> sequence]
    /\ UNCHANGED <<node_id, sequence, gpc, elapsed, saw_before, issued, validity>>
    /\ UNCHANGED <<helper, epoch, served, clone_issued>>
    /\ UNCHANGED s3vars

\* clone(): epoch and node_id are copied, the sequence is 0.into(). The
\* model follows one clone.
Clone ==
    /\ ~clone.made
    /\ clone' = [made |-> TRUE, epoch |-> epoch, node_id |-> node_id,
                 sequence |-> FromNat(0)]
    /\ UNCHANGED <<node_id, sequence, gpc, elapsed, saw_before, issued, validity>>
    /\ UNCHANGED <<helper, epoch, served, clone_issued>>
    /\ UNCHANGED s3vars

\* generate() on the clone, both statements in one step: the clone shares
\* no state with the source, and the model has one caller use it.
CloneGenerate(r) ==
    /\ clone.made
    /\ Len(issued) + Len(clone_issued)
          + Cardinality({u \in Threads : gpc[u] = "fetch"}) < MaxIssued
    /\ LET fa == FetchAdd(clone.sequence) IN
          /\ clone' = [clone EXCEPT !.sequence = fa.stored]
          /\ clone_issued' = Append(clone_issued,
                [elapsed |-> ElapsedMillis(r),
                 before  |-> r.before,
                 fetched |-> fa.fetched,
                 id      |-> GenerateId(ElapsedMillis(r), fa.fetched,
                                        clone.node_id)])
    /\ UNCHANGED <<node_id, sequence, gpc, elapsed, saw_before, issued, validity>>
    /\ UNCHANGED <<helper, epoch, served>>
    /\ UNCHANGED s3vars

CloneNext ==
    \/ \E t \in Threads, r \in Readings : GenerateReadClock(t, r)
    \/ \E t \in Threads : GenerateFetchAdd(t)
    \/ Clone
    \/ \E r \in Readings : CloneGenerate(r)

WrapNext ==
    \/ \E t \in Threads, r \in Readings : GenerateReadClock(t, r)
    \/ \E t \in Threads : GenerateFetchAdd(t)
    \/ GenerateUnlogged

HelperNext ==
    \/ \E t \in HelperClock, period \in Periods : CallFromDuration(t, period)
    \/ \E t1 \in HelperClock, t2 \in HelperClock, timestamp \in Timestamps :
          CallFromTimestamp(t1, t2, timestamp)

SnowNext ==
    \/ \E t \in Threads, r \in Readings : GenerateReadClock(t, r)
    \/ \E t \in Threads : GenerateFetchAdd(t)
    \/ \E r \in Readings : IsValid(r)

\* ------------------------------------------------------------------------
\* Specifications
\* ------------------------------------------------------------------------

\* The blob backend at work, beside a generator just built and left alone.
Init ==
    /\ S3Init
    /\ node_id = FromNat(511) /\ sequence = FromNat(0) /\ served = 0
    /\ SnowIdle

Next == S3Next

Spec == Init /\ [][Next]_vars

\* The request a call awaits is answered: an HTTP response or a failure of
\* the transport.
Answered(c) ==
    \/ TransportFailure(c)
    \/ \E status \in StatusCodes : Receive(c, status)

\* The backend under a runtime that keeps polling the future of a started
\* call (the request is sent, the sleep ends) and a server or transport that
\* answers every request. Nothing obliges a caller to start a call.
\* A faithful store behind the backend: every request is carried out and
\* answered, no failures. max_retries is the default.
StoreInit ==
    /\ max_retries = 3
    /\ prefix \in Prefixes
    /\ callers = {"a"}
    /\ NoCalls
    /\ node_id = FromNat(511) /\ sequence = FromNat(0) /\ served = 0
    /\ SnowIdle

StoreSpec == StoreInit /\ [][StoreNext]_vars

\* Two calls at once on one backend.
ConcurrentInit ==
    /\ max_retries \in 0..MaxConcurrentRetries
    /\ prefix = Some(<<112>>)
    /\ callers = Calls
    /\ NoCalls
    /\ node_id = FromNat(511) /\ sequence = FromNat(0) /\ served = 0
    /\ SnowIdle

ConcurrentSpec == ConcurrentInit /\ [][ConcurrentNext]_vars

FairSpec ==
    /\ Init /\ [][Next]_vars
    /\ \A c \in Calls :
          WF_vars(Send(c)) /\ WF_vars(Wake(c)) /\ WF_vars(Answered(c))

\* The generator at work, beside a backend with the default configuration
\* on which no call is made.
SnowflakeInit ==
    /\ SnowInit
    /\ max_retries = 3 /\ callers = {} /\ S3Idle

SnowflakeSpec == SnowflakeInit /\ [][SnowNext]_vars

\* The epoch-relative helpers (associated functions: no generator state is
\* read or written), under every clock reading and argument explored.
HelperInit ==
    /\ node_id = FromNat(511) /\ sequence = FromNat(0) /\ served = 0
    /\ SnowIdle
    /\ max_retries = 3 /\ callers = {} /\ S3Idle

HelperSpec == HelperInit /\ [][HelperNext]_vars

\* The value fetch_add returned to the one earlier call the log keeps.
WrapFirstFetched == {0, 3, 50}

\* A generator close to a full turn of the sequence after a logged call:
\* that call fetched f under some clock reading, and FullTurn - 2 or
\* FullTurn - 1 calls have been served since, so the next one fetches
\* f + 4095 or f + 4096.
\* Each thread is outside generate() or held between its clock reading
\* (taken at any time before) and its fetch_add.
WrapInit ==
    /\ node_id \in NodeIds
    /\ \E f \in WrapFirstFetched, r \in Readings :
          /\ served \in {f + FullTurn - 1, f + FullTurn}
          /\ issued = << [elapsed |-> ElapsedMillis(r),
                          before  |-> r.before,
                          fetched |-> FromNat(f),
                          nth     |-> f + 1,
                          id      |-> GenerateId(ElapsedMillis(r), FromNat(f),
                                                 node_id)] >>
    /\ sequence = FromNat(served)
    /\ \E held \in SUBSET Threads :
          /\ gpc = [t \in Threads |-> IF t \in held THEN "fetch" ELSE "idle"]
          /\ \E rs \in [Threads -> Readings] :
                /\ elapsed = [t \in Threads |->
                      IF t \in held THEN ElapsedMillis(rs[t]) ELSE FromNat(0)]
                /\ saw_before = [t \in Threads |->
                      IF t \in held THEN rs[t].before ELSE FALSE]
    /\ validity = NotCalled
    /\ helper = NoHelper
    /\ epoch = DEFAULT_EPOCH
    /\ clone = NoClone
    /\ clone_issued = <<>>
    /\ max_retries = 3 /\ callers = {} /\ S3Idle

\* The generator where the 12-bit sequence comes round to the value a
\* logged call carried.
WrapSpec == WrapInit /\ [][WrapNext]_vars

\* A generator and its clone, each generating ids.
CloneSpec == SnowflakeInit /\ [][CloneNext]_vars

\* ------------------------------------------------------------------------
\* S3Store: properties of the retry loop
\* ------------------------------------------------------------------------

\* Every request the call has issued was answered, and by a 5xx status.
All5xx(c) == received[c] = requests[c] /\ n5xx[c] = received[c]

Pow2(n) == 2 ^ n

\* C1: with max_retries = N and a server that answers every request with a
\* 5xx status, a get, put or delete call issues exactly N+1 requests and
\* then returns an error carrying the status of the last response; while
\* every response so far was 5xx it never issues an (N+2)-th request, and it
\* never returns before the (N+1)-th.
C1_ExhaustedRetries ==
    \A c \in Calls :
        /\ (n5xx[c] = received[c]) => requests[c] <= max_retries + 1
        /\ (pc[c] = "done" /\ All5xx(c)) =>
              /\ requests[c] = max_retries + 1
              /\ \E s \in 500..599 :
                    /\ last_status[c] = {s}
                    /\ result[c] = [kind |-> "Err", code |-> {s}]

C1_Witness ==
    \E c \in Calls :
        /\ pc[c] = "done" /\ All5xx(c)
        /\ op[c] = "put"
        /\ max_retries = 3 /\ requests[c] = 4
        /\ result[c] = [kind |-> "Err", code |-> {599}]

\* C2 as stated: against an always-5xx server the delays are 1, 2, 4, ...
\* doubling each time, and the last delay before the terminal error is
\* 2^min(N,6) seconds.
C2_AsStated ==
    \A c \in Calls :
        (pc[c] = "done" /\ All5xx(c)) =>
            /\ \A i \in 1..Len(sleeps[c]) :
                  sleeps[c][i] = IF i = 1 THEN 1 ELSE 2 * sleeps[c][i - 1]
            /\ Len(sleeps[c]) > 0 =>
                  sleeps[c][Len(sleeps[c])] = Pow2(Min(max_retries, 6))

\* C2 (amended): against an always-5xx server a call with max_retries = N
\* sleeps exactly N times, the i-th sleep (i = 1..N) lasting 2^min(i-1,6)
\* seconds: 1, 2, 4, ... doubling up to 64 and 64 from then on; the last
\* delay is 2^min(N-1,6) seconds, and with N = 0 there is no delay.
C2_BackoffSequence ==
    \A c \in Calls :
        (pc[c] = "done" /\ All5xx(c)) =>
            /\ Len(sleeps[c]) = max_retries
            /\ \A i \in 1..Len(sleeps[c]) : sleeps[c][i] = Pow2(Min(i - 1, 6))
            /\ max_retries > 0 =>
                  sleeps[c][Len(sleeps[c])] = Pow2(Min(max_retries - 1, 6))

C2_Witness ==
    \E c \in Calls :
        /\ pc[c] = "done" /\ All5xx(c)
        /\ max_retries = 8
        /\ sleeps[c] = <<1, 2, 4, 8, 16, 32, 64, 64>>

\* C3: a backoff sleep lasts exactly 2^min(max_retries - retries_left, 6)
\* seconds, retries_left being the budget when the 5xx response is seen (it
\* is decremented only after the sleep); no sleep exceeds 64 seconds.
C3_SleepDuration ==
    \A c \in Calls :
        /\ pc[c] = "sleep" =>
              /\ retries_left[c] \in 1..max_retries
              /\ sleeps[c][Len(sleeps[c])] =
                    Pow2(Min(max_retries - retries_left[c], 6))
        /\ \A i \in 1..Len(sleeps[c]) : sleeps[c][i] <= 64

C3_Witness ==
    \E c \in Calls :
        /\ pc[c] = "sleep"
        /\ max_retries = 8 /\ retries_left[c] = 1
        /\ sleeps[c][Len(sleeps[c])] = 64

\* C4: when get_blob or delete_blob receives a 404, on the first attempt or
\* after earlier 5xx retries, the call is over with None (get) or false
\* (delete); the 404 causes no sleep, no decrement of the budget and no
\* further request: sleeps and decrements are those of the earlier 5xx
\* responses only.
C4_NotFoundImmediate ==
    \A c \in Calls :
        (op[c] \in {"get", "delete"} /\ last_status[c] = {404}) =>
            /\ pc[c] = "done"
            /\ result[c] = [kind |-> IF op[c] = "get" THEN "None" ELSE "False",
                            code |-> {}]
            /\ requests[c] = received[c]
            /\ n5xx[c] = received[c] - 1
            /\ Len(sleeps[c]) = received[c] - 1
            /\ retries_left[c] = max_retries - (received[c] - 1)

C4_Witness ==
    \E c \in Calls :
        /\ op[c] = "delete" /\ last_status[c] = {404}
        /\ received[c] = 3 /\ retries_left[c] > 0
        /\ result[c].kind = "False"

\* C5: a request that fails at the transport layer (no HTTP response) ends
\* the call with an error at once: no sleep and no further request follow,
\* whatever budget remains and however many 5xx retries came before.
C5_TransportErrorImmediate ==
    \A c \in Calls :
        (pc[c] # "await" /\ requests[c] > received[c]) =>
            /\ pc[c] = "done"
            /\ result[c] = [kind |-> "Err", code |-> {}]
            /\ requests[c] = received[c] + 1
            /\ n5xx[c] = received[c]
            /\ Len(sleeps[c]) = received[c]
            /\ retries_left[c] = max_retries - received[c]

C5_Witness ==
    \E c \in Calls :
        /\ pc[c] = "done" /\ requests[c] = received[c] + 1
        /\ received[c] = 2 /\ retries_left[c] > 0
        /\ result[c] = [kind |-> "Err", code |-> {}]

\* A status that is neither 2xx, nor 5xx, nor (for get and delete) 404.
IsOtherStatus(o, s) ==
    /\ ~(200 <= s /\ s <= 299)
    /\ ~(500 <= s /\ s <= 599)
    /\ ~(s = 404 /\ o \in {"get", "delete"})

\* C6: a response whose status is neither 2xx, nor 5xx, nor (get/delete) 404
\* ends the call at once with an error carrying exactly that status, with no
\* sleep and no retry even when retries remain; for put_blob a 404 is such
\* an error.
C6_OtherStatusImmediate ==
    \A c \in Calls : \A s \in StatusCodes :
        (op[c] \in Ops /\ last_status[c] = {s} /\ IsOtherStatus(op[c], s)) =>
            /\ pc[c] = "done"
            /\ result[c] = [kind |-> "Err", code |-> {s}]
            /\ requests[c] = received[c]
            /\ n5xx[c] = received[c] - 1
            /\ Len(sleeps[c]) = received[c] - 1
            /\ retries_left[c] = max_retries - (received[c] - 1)

C6_Witness ==
    \E c \in Calls :
        /\ op[c] = "put" /\ last_status[c] = {404}
        /\ received[c] = 2 /\ retries_left[c] > 0
        /\ result[c] = [kind |-> "Err", code |-> {404}]

\* ------------------------------------------------------------------------
\* S3Store: properties of paths, requests and budgets
\* ------------------------------------------------------------------------
\* No call between the i-th and the j-th of the history was on this key.
Untouched(key, i, j) ==
    \A m \in (i + 1)..(j - 1) : history[m].key # key

\* The object of this key exists when the j-th call of the history starts:
\* the last put or delete on the key before it was a put. (The bucket is
\* empty at first, every put in the history succeeded.)
PresentBefore(key, j) ==
    \E i \in 1..(j - 1) :
        /\ history[i].key = key /\ history[i].op = "put"
        /\ \A m \in (i + 1)..(j - 1) :
              ~(history[m].key = key /\ history[m].op = "delete")

\* C14: against a store that keeps objects by path and answers without
\* failures, a successful put_blob(key, data) followed by a whole-object
\* get_blob(key) on the same backend, with no operation on that key in
\* between, returns exactly the bytes written; and all the requests of get,
\* put and delete calls for one key address one path.
C14_RoundTrip ==
    /\ \A i \in 1..Len(history) : \A j \in 1..Len(history) :
          ( /\ i < j
            /\ history[i].op = "put"
            /\ history[i].result = [kind |-> "Unit", code |-> {}]
            /\ history[j].op = "get"
            /\ history[j].key = history[i].key
            /\ history[j].range = WholeRange
            /\ Untouched(history[i].key, i, j) )
          => /\ history[j].result = [kind |-> "Some", code |-> {}]
             /\ history[j].returned = [some |-> TRUE, val |-> history[i].data]
    /\ \A i \in 1..Len(history) : \A j \in 1..Len(history) :
          history[i].key = history[j].key =>
             \A a \in 1..Len(history[i].sent) : \A b \in 1..Len(history[j].sent) :
                history[i].sent[a].path = history[j].sent[b].path

\* Under the prefix "p": put(<<255, 1>>, <<1, 2, 3>>), then a delete of the
\* other key, then a whole-object get(<<255, 1>>) that returned <<1, 2, 3>>.
C14_Witness ==
    /\ prefix = [some |-> TRUE, val |-> <<112>>]
    /\ Len(history) = 3
    /\ history[1].op = "put" /\ history[1].key = <<255, 1>>
    /\ history[1].data = <<1, 2, 3>>
    /\ history[2].op = "delete" /\ history[2].key = <<0>>
    /\ history[3].op = "get" /\ history[3].key = <<255, 1>>
    /\ history[3].range = WholeRange
    /\ history[3].returned = [some |-> TRUE, val |-> <<1, 2, 3>>]
    /\ history[3].sent[1].path = history[1].sent[1].path
    /\ history[3].sent[1].path # history[2].sent[1].path

\* C15: against a store that answers 2xx when it deletes an existing object
\* and 404 when the object is missing, delete_blob on an absent key returns
\* false, delete_blob on a present key returns true, and a get_blob on that
\* key issued after the successful delete (and before any put on the key)
\* returns 'absent'.
C15_DeleteResult ==
    /\ \A j \in 1..Len(history) :
          history[j].op = "delete" =>
             history[j].result =
                IF PresentBefore(history[j].key, j)
                THEN [kind |-> "True", code |-> {}]
                ELSE [kind |-> "False", code |-> {}]
    /\ \A i \in 1..Len(history) : \A j \in 1..Len(history) :
          ( /\ i < j
            /\ history[i].op = "delete"
            /\ history[i].result = [kind |-> "True", code |-> {}]
            /\ history[j].op = "get"
            /\ history[j].key = history[i].key
            /\ \A m \in (i + 1)..(j - 1) :
                  ~(history[m].key = history[i].key /\ history[m].op = "put") )
          => /\ history[j].result = [kind |-> "None", code |-> {}]
             /\ history[j].returned = [some |-> FALSE, val |-> {}]

\* put(<<0>>, <<7>>), delete(<<0>>) returned true, get(<<0>>) returned
\* absent.
C15_Witness ==
    /\ Len(history) = 3
    /\ history[1].op = "put" /\ history[1].key = <<0>>
    /\ history[1].data = <<7>>
    /\ history[2].op = "delete" /\ history[2].key = <<0>>
    /\ history[2].result = [kind |-> "True", code |-> {}]
    /\ history[3].op = "get" /\ history[3].key = <<0>>
    /\ history[3].result = [kind |-> "None", code |-> {}]

\* C16: the retry budget is private to each call. With several calls
\* running concurrently on one backend, the budget of a call changes only
\* in a step of that call (its entry, or the end of its own sleep, which
\* takes exactly one retry from it), so each call has max_retries minus its
\* own retried 5xx responses left and makes up to max_retries + 1 requests
\* whatever the others do; max_retries and the prefix are never modified.
C16_PrivateBudget ==
    /\ [][ /\ max_retries' = max_retries
           /\ prefix' = prefix
           /\ \A c \in Calls :
                 retries_left'[c] # retries_left[c] =>
                    /\ \/ pc[c] = "idle" /\ pc'[c] = "send"
                       \/ /\ pc[c] = "sleep" /\ pc'[c] = "send"
                          /\ retries_left'[c] = retries_left[c] - 1
                    /\ \A d \in Calls \ {c} :
                          retries_left'[d] = retries_left[d]
         ]_vars
    /\ [](\A c \in Calls :
            /\ requests[c] <= max_retries + 1
            /\ pc[c] \in {"send", "await", "done"} =>
                  retries_left[c] = max_retries - Len(sleeps[c])
            /\ pc[c] = "sleep" =>
                  retries_left[c] = max_retries - Len(sleeps[c]) + 1)

\* With max_retries = 1, call a has used its retry and got a second 5xx,
\* while call b, started as well, still has its whole budget.
C16_Witness ==
    /\ callers = Calls /\ max_retries = 1
    /\ pc["a"] = "done" /\ requests["a"] = 2 /\ n5xx["a"] = 2
    /\ retries_left["a"] = 0
    /\ pc["b"] = "await" /\ requests["b"] = 1 /\ retries_left["b"] = 1

\* C17: get_blob issues a full-object fetch iff the range is exactly
\* start = 0 and end = usize::MAX; for every other range it issues a ranged
\* fetch for the bytes start through end - 1 inclusive, end - 1 saturating
\* at 0 (so the empty range 0..0 asks for byte 0); every retry re-issues the
\* same request, with the same path and the same range.
C17_RequestOfRange ==
    \A c \in Calls :
        op[c] = "get" =>
            /\ Len(sent[c]) = requests[c]
            /\ \A i \in 1..Len(sent[c]) :
                  LET rq == sent[c][i]
                      rg == local[c].range
                  IN  /\ rq.method \in {"get_object", "get_object_range"}
                      /\ rq.method = "get_object" <=>
                            (rg.start = FromNat(0) /\ rg.end = UsizeMax)
                      /\ rq.method = "get_object_range" =>
                            /\ rq.start = rg.start
                            /\ \/ Inc(rq.end) = rg.end
                               \/ rg.end = FromNat(0) /\ rq.end = FromNat(0)
                      /\ rq = sent[c][1]
                      /\ rq.path = local[c].path.val

\* A get of the empty range 0..0 under the prefix was retried twice: three
\* identical ranged requests for byte 0 through byte 0.
C17_Witness ==
    \E c \in Calls :
        /\ op[c] = "get" /\ prefix = Some(<<112>>)
        /\ local[c].range = [start |-> FromNat(0), end |-> FromNat(0)]
        /\ Len(sent[c]) = 3 /\ n5xx[c] = 2
        /\ sent[c][3].method = "get_object_range"
        /\ sent[c][3].start = FromNat(0) /\ sent[c][3].end = FromNat(0)
        /\ sent[c][3] = sent[c][1]

\* The 5xx responses of call c that were retried: all of them, but for the
\* one that ended the call with an error.
Retried5xx(c) ==
    IF pc[c] = "done" /\ result[c].kind = "Err"
       /\ \E s \in 500..599 : result[c].code = {s}
    THEN n5xx[c] - 1
    ELSE n5xx[c]

\* C18: provided every request is answered, every started get/put/delete
\* call terminates, after at most max_retries + 1 requests; when it has, the
\* number of requests made is one plus the number of 5xx responses that
\* were retried and the number of sleeps is the number of requests minus
\* one; a 2xx received after k <= max_retries 5xx responses yields success.
C18_Termination ==
    /\ \A c \in Calls : (pc[c] = "send") ~> (pc[c] = "done")
    /\ [](\A c \in Calls :
            /\ requests[c] <= max_retries + 1
            /\ pc[c] = "done" =>
                  /\ requests[c] = 1 + Retried5xx(c)
                  /\ Len(sleeps[c]) = requests[c] - 1
            /\ (pc[c] = "done" /\ \E s \in 200..299 : last_status[c] = {s}) =>
                  /\ n5xx[c] <= max_retries
                  /\ result[c] = SuccessValue(op[c]))

\* A delete with max_retries = 8 got eight 5xx responses and then a 2xx:
\* nine requests, eight sleeps, success.
C18_Witness ==
    \E c \in Calls :
        /\ pc[c] = "done" /\ op[c] = "delete"
        /\ max_retries = 8 /\ n5xx[c] = 8 /\ requests[c] = 9
        /\ Len(sleeps[c]) = 8
        /\ last_status[c] = {200}
        /\ result[c] = SuccessValue("delete")

\* C19: in every state of a get/put/delete call 0 <= retries_left <=
\* max_retries, so max_retries - retries_left does not underflow and the
\* counter is never decremented below 0, and every backoff slept so far was
\* 1 << s seconds for a shift amount s between 0 and 6, namely
\* min(max_retries - retries_left, 6).
C19_BudgetInRange ==
    \A c \in Calls :
        /\ retries_left[c] >= 0
        /\ retries_left[c] <= max_retries
        /\ pc[c] = "sleep" => retries_left[c] >= 1
        /\ \A i \in 1..Len(sleeps[c]) :
              \E s \in 0..6 : sleeps[c][i] = Pow2(s)
        /\ pc[c] = "sleep" =>
              \E s \in 0..6 :
                 /\ s = Min(max_retries - retries_left[c], 6)
                 /\ sleeps[c][Len(sleeps[c])] = Pow2(s)

\* A call with max_retries = 8 sleeps for the eighth time: one retry left,
\* shift amount min(7, 6) = 6.
C19_Witness ==
    \E c \in Calls :
        /\ pc[c] = "sleep"
        /\ max_retries = 8 /\ retries_left[c] = 1
        /\ Len(sleeps[c]) = 8 /\ sleeps[c][8] = 64 /\ sleeps[c][7] = 64
        /\ sleeps[c][6] = 32

\* ------------------------------------------------------------------------
\* SnowflakeIdGenerator: properties of the ids
\* ------------------------------------------------------------------------

\* The fields of an id by arithmetic on its bits: id >> 21, (id >> 9) mod
\* 4096 and id mod 512.
FieldTimestamp(id) == {i - 21 : i \in {j \in id : j >= 21}}
FieldSequence(id) == {i - 9 : i \in {j \in id : j >= 9 /\ j <= 20}}
FieldNode(id) == {i \in id : i <= 8}

Mod4096(x) == {i \in x : i <= 11}
Mod512(x) == {i \in x : i <= 8}

\* e < 2^43
Fits43(e) == \A i \in e : i <= 42

\* the successor of a sequence field modulo 4096
Succ4096(s) == Mod4096(Inc(s))

\* Calls i and j observed the same elapsed millisecond.
SameMs(i, j) == issued[i].elapsed = issued[j].elapsed

\* C7 as stated: any generate() calls on one instance that observe the same
\* elapsed millisecond return pairwise distinct ids, and their sequence
\* fields are consecutive values modulo 4096 (each the successor of the one
\* before it among them).
C7_AsStated ==
    \A i \in 1..Len(issued) : \A j \in (i + 1)..Len(issued) :
        SameMs(i, j) =>
            /\ issued[i].id # issued[j].id
            /\ (\A k \in (i + 1)..(j - 1) : ~SameMs(i, k)) =>
                  FieldSequence(issued[j].id) = Succ4096(FieldSequence(issued[i].id))

\* C7 (amended): M <= 4096 generate() calls on one instance that observe the
\* same elapsed millisecond and whose atomic increments are consecutive (no
\* other generate() call on the instance increments the counter between
\* them) return M pairwise distinct ids, under every interleaving, and their
\* sequence fields are M consecutive values modulo 4096.
C7_DistinctWithinMs ==
    \A i \in 1..Len(issued) : \A j \in i..Len(issued) :
        (\A k \in i..j : SameMs(i, k)) =>
            /\ \A k \in i..j : \A l \in i..j :
                  k # l => issued[k].id # issued[l].id
            /\ \A k \in i..(j - 1) :
                  FieldSequence(issued[k + 1].id) =
                      Succ4096(FieldSequence(issued[k].id))

C7_Witness ==
    /\ Len(issued) = 3
    /\ \A k \in 1..3 : issued[k].elapsed = FromNat(1)
    /\ FieldSequence(issued[1].id) = FromNat(4094)
    /\ FieldSequence(issued[2].id) = FromNat(4095)
    /\ FieldSequence(issued[3].id) = FromNat(0)
    /\ issued[1].id # issued[3].id

\* C8: two generate() calls with the same node_id that observed elapsed
\* milliseconds t1 < t2, both below 2^43, returned id1 < id2, whatever
\* their sequence values and whichever incremented the counter first.
C8_TimeOrdered ==
    \A i \in 1..Len(issued) : \A j \in 1..Len(issued) :
        ( /\ Fits43(issued[i].elapsed) /\ Fits43(issued[j].elapsed)
          /\ Less(issued[i].elapsed, issued[j].elapsed) )
        => Less(issued[i].id, issued[j].id)

C8_Witness ==
    /\ Len(issued) >= 2
    /\ issued[1].elapsed = FromNat(1)
    /\ issued[2].elapsed = FromNat(0)
    /\ issued[2].fetched = FromNat(4095)
    /\ Less(issued[2].id, issued[1].id)

\* C9: every id returned by generate() has the 43/12/9 layout: for elapsed
\* e < 2^43, id >> 21 = e; always (id >> 9) mod 4096 = the fetched counter
\* value mod 4096 and id mod 512 = node_id mod 512; the id is exactly the
\* three fields side by side, so a node_id with bits above the low 9 gives
\* the ids of its value mod 512.
C9_Layout ==
    \A k \in 1..Len(issued) :
        LET id == issued[k].id
            e  == issued[k].elapsed
        IN  /\ FieldSequence(id) = Mod4096(issued[k].fetched)
            /\ FieldNode(id) = Mod512(node_id)
            /\ Fits43(e) =>
                  /\ FieldTimestamp(id) = e
                  /\ id = {i + 21 : i \in e}
                            \cup {i + 9 : i \in Mod4096(issued[k].fetched)}
                            \cup Mod512(node_id)

C9_Witness ==
    \E k \in 1..Len(issued) :
        /\ node_id = FromNat(1027)
        /\ issued[k].elapsed = 0..42
        /\ issued[k].fetched = FromNat(4095)
        /\ FieldNode(issued[k].id) = FromNat(3)
        /\ FieldTimestamp(issued[k].id) = 0..42

\* The counter value after call k's fetch_add: what the next call fetched,
\* or the counter itself when call k is the latest.
CounterAfter(k) ==
    IF k < Len(issued) THEN issued[k + 1].fetched ELSE sequence

\* C10: is_valid() returns true iff the clock it reads is at or after the
\* epoch; a generate() that reads a clock before the epoch still returns an
\* id, with timestamp field 0 (only the sequence and node fields set), and
\* advances the sequence counter by one.
C10_BeforeEpoch ==
    /\ validity.called => (validity.ret <=> ~validity.before)
    /\ \A k \in 1..Len(issued) :
          issued[k].before =>
              /\ FieldTimestamp(issued[k].id) = {}
              /\ issued[k].id = {i + 9 : i \in Mod4096(issued[k].fetched)}
                                    \cup Mod512(node_id)
              /\ CounterAfter(k) = Inc(issued[k].fetched)

C10_Witness ==
    /\ validity.called /\ validity.before /\ ~validity.ret
    /\ \E k \in 1..Len(issued) :
          /\ issued[k].before
          /\ issued[k].fetched = FromNat(4095)
          /\ sequence = FromNat(4096)

\* The whole second (relative to the epoch) a reading falls in, and the
\* current time in whole unix seconds.
WholeSecond(t) == CHOOSE s \in -5..5 : s * 1000 <= t /\ t < (s + 1) * 1000
NowUnixSeconds(t) == DEFAULT_EPOCH + WholeSecond(t)

\* from_duration returned "no value" exactly when the clock was before the
\* epoch or the period exceeded the time elapsed since the epoch.
FromDurationAsClaimed ==
    helper.fn = "from_duration" =>
        ( ~helper.ret.some <=>
            \/ helper.now1 < 0
            \/ helper.period.secs * 1000 + helper.period.millis > helper.now1 )

\* C11 as stated, for the calls whose two clock readings are at most one
\* millisecond apart: from_duration(period) returns "no value" exactly when
\* the period exceeds the time elapsed since the epoch or the clock is
\* before the epoch; from_timestamp(unix_seconds) returns "no value"
\* exactly when unix_seconds is later than the current time in whole
\* seconds or earlier than the epoch.
C11_AsStated ==
    /\ FromDurationAsClaimed
    /\ ( /\ helper.fn = "from_timestamp"
         /\ helper.now1 <= helper.now2 /\ helper.now2 <= helper.now1 + 1 ) =>
          ( ~helper.ret.some <=>
              \/ helper.ts > NowUnixSeconds(helper.now1)
              \/ helper.ts < DEFAULT_EPOCH )

\* What the code does guarantee about C11's cases: from_duration as stated;
\* from_timestamp(unix_seconds) returns "no value" whenever unix_seconds is later than the current time
\* in whole seconds (its first clock reading); when the clock reading taken
\* inside from_duration falls in the same whole second as the first one, it
\* returns "no value" also whenever unix_seconds is earlier than the epoch,
\* and a value in every other case.
C11_NoValueCases ==
    /\ FromDurationAsClaimed
    /\ helper.fn = "from_timestamp" =>
          /\ helper.ts > NowUnixSeconds(helper.now1) => ~helper.ret.some
          /\ WholeSecond(helper.now1) = WholeSecond(helper.now2) =>
                ( ~helper.ret.some <=>
                    \/ helper.ts > NowUnixSeconds(helper.now1)
                    \/ helper.ts < DEFAULT_EPOCH )

\* The failing call is reached: from_timestamp(DEFAULT_EPOCH - 1), whose
\* first reading is the last millisecond of a second and whose second
\* reading is the first millisecond of the next, returned a value.
C11_Witness ==
    /\ helper.fn = "from_timestamp"
    /\ helper.now1 = 999 /\ helper.now2 = 1000
    /\ helper.ts = DEFAULT_EPOCH - 1
    /\ helper.ret = [some |-> TRUE, val |-> {}]

\* C12: clone() yields a generator with the source's epoch and node_id and
\* a sequence counter of 0, and leaves the source's counter unchanged;
\* consequently the first id generated by the clone equals every id the
\* source generated with sequence 0 in the same elapsed millisecond.
C12_Clone ==
    /\ [][ (~clone.made /\ clone.made') =>
              /\ clone'.epoch = epoch /\ clone'.node_id = node_id
              /\ clone'.sequence = FromNat(0)
              /\ sequence' = sequence /\ epoch' = epoch /\ node_id' = node_id
         ]_vars
    /\ [](\A i \in 1..Len(issued) :
            ( /\ clone_issued # <<>>
              /\ clone_issued[1].elapsed = issued[i].elapsed
              /\ FieldSequence(issued[i].id) = FromNat(0) )
            => clone_issued[1].id = issued[i].id)

\* The source (fresh, node 1027 masked to 3) generated its first id in
\* millisecond 1, then was cloned, and the clone returned the same id in
\* the same millisecond.
C12_Witness ==
    /\ clone.made /\ Len(clone_issued) = 1 /\ Len(issued) >= 2
    /\ node_id = FromNat(1027)
    /\ issued[1].fetched = FromNat(0)
    /\ issued[1].elapsed = FromNat(1)
    /\ clone_issued[1].elapsed = FromNat(1)
    /\ clone_issued[1].id = issued[1].id
    /\ clone_issued[1].id # issued[2].id

\* C13: the sequence wraps silently. A caller that has read the clock can
\* always take its fetch_add step and return (generate never blocks or
\* fails, whatever the counter holds), and two generate() calls on one
\* instance that observed the same elapsed millisecond and whose fetched
\* counter values differ by a multiple of 4096 returned the same id.
C13_SilentWrap ==
    /\ \A t \in Threads : gpc[t] = "fetch" => ENABLED GenerateFetchAdd(t)
    /\ \A i \in 1..Len(issued) : \A j \in 1..Len(issued) :
          ( /\ SameMs(i, j)
            /\ (issued[j].nth - issued[i].nth) % 4096 = 0 )
          => issued[i].id = issued[j].id

\* Two logged calls in millisecond 1, a full turn of the sequence apart
\* (fetched 0 and 4096, with the call that fetched 4095 between them),
\* returned one id.
C13_Witness ==
    \E i \in 1..Len(issued) : \E j \in 1..Len(issued) :
        /\ issued[i].nth = 1 /\ issued[j].nth = 4097
        /\ issued[i].fetched = FromNat(0) /\ issued[j].fetched = {12}
        /\ issued[i].elapsed = FromNat(1) /\ issued[j].elapsed = FromNat(1)
        /\ issued[i].id = issued[j].id

\* C20: the sequence counter is never reset when the millisecond changes.
\* The n-th generate() call on an instance (in the order of the atomic
\* increments) carries sequence field (n-1) mod 4096 whatever the clock
\* read; hence of two consecutive calls in the same millisecond, the first
\* carrying sequence 4095, the second returned the smaller id.
C20_SequenceNeverReset ==
    /\ \A i \in 1..Len(issued) :
          FieldSequence(issued[i].id) = FromNat((issued[i].nth - 1) % 4096)
    /\ \A i \in 1..Len(issued) : \A j \in 1..Len(issued) :
          ( /\ issued[j].nth = issued[i].nth + 1
            /\ SameMs(i, j)
            /\ FieldSequence(issued[i].id) = FromNat(4095) )
          => Less(issued[j].id, issued[i].id)

\* Calls 4095, 4096 and 4097: the first in another millisecond than the
\* next two, sequence fields 4094, 4095 and 0, the last id smaller than the
\* one before it.
C20_Witness ==
    /\ Len(issued) = 3
    /\ issued[1].nth = 4095 /\ issued[2].nth = 4096 /\ issued[3].nth = 4097
    /\ ~SameMs(1, 2) /\ SameMs(2, 3)
    /\ FieldSequence(issued[1].id) = FromNat(4094)
    /\ FieldSequence(issued[2].id) = FromNat(4095)
    /\ FieldSequence(issued[3].id) = FromNat(0)
    /\ Less(issued[3].id, issued[2].id)

====
